---- MODULE Spec2Model ----
\* Hero carousel of TheDietPlanner (src/js/main.js, initHeroSlider) together with
\* the slide timeline factories of src/js/parallax-engine.js.
\*
\* The state is the closure state of initHeroSlider (current, paused, the two
\* timer handles, progressStart, touchStartX), the DOM state it writes (active
\* markers of slides and dots, the track's transform, the progress bar's
\* width), and the browser state it depends on (the clock, the live interval
\* timers, the pending completions of exit timelines, the two global factory
\* functions).  Every event handler is one atomic action: JavaScript runs each
\* handler to completion on the single event loop.  touchEndX, which only the
\* touchend handler writes and then reads, is local to that handler here.
\*
\* Pending completions of exit timelines are kept per slide: the callbacks
\* registered for one slide are the same closure body, and running it twice
\* has the effect of running it once.  A completion runs at any time after the
\* goTo that requested the timeline.  Date.now() never goes back.
EXTENDS Integers, FiniteSets, Sequences, TLC

\* ---------------------------------------------------------------- bounds
\* Largest number of .hero-slide elements of the page.
MaxSlides == 2
\* Largest number of clock advances in a behaviour.
MaxAdvances == 2
\* Largest |k| of a direct goTo(k) call.
MaxK == 5
\* Largest slide count when only the manual inputs act.
MaxManualSlides == 4
\* Date.now() when the page is initialised.
StartTime == 1000
\* The amounts of time (ms) by which the clock advances between two events.
TimeSteps == {30, 4990}
\* The amounts of time (ms) by which the clock advances when it never stops.
LiveSteps == {2500}
\* The amounts of time (ms) by which the clock advances when timers fire late.
LateSteps == {2000}
\* The screenX values at which touches start and end.
StartXValues == {300}
EndXValues == {249, 250, 350, 351}
\* The keys of keydown events.
Keys == {"ArrowLeft", "ArrowRight", "Enter"}

\* ------------------------------------------------------ program constants
INTERVAL == 5000
TICK == 30
SWIPE_THRESHOLD == 50
TRACK_STEP == 20
\* The value of a timer handle variable before its first setInterval (null).
NullTimer == 0

VARIABLES
    dom,            \* which elements of the markup exist
    total,          \* slides.length
    current,        \* index of the current slide
    slideActive,    \* slideActive[i]: slide i carries the class "active"
    dotActive,      \* dotActive[i]: dot i carries the class "active"
    trackOffset,    \* x of the track's translateX(x%)
    progressWidth,  \* width of the progress bar, in percent times INTERVAL
    progressStart,  \* the progress epoch
    paused,
    autoplayTimer,  \* handle of the autoplay interval
    progressTimer,  \* handle of the progress interval
    timers,         \* the live interval timers of the browser
    touchStartX,
    now,            \* Date.now()
    advances,       \* number of clock advances so far
    touching,       \* a touch that started on the slider has not ended
    hovering,       \* the pointer is over the slider
    manualAt,       \* the time of the latest manual input, if any: {} or {t}
    provider,       \* window.createSlide{Entrance,Exit}Timeline are functions
    exitPending,    \* slides whose exit timeline has a completion still to run
    last            \* what the most recent step did

vars == << dom, total, current, slideActive, dotActive, trackOffset,
           progressWidth, progressStart, paused, autoplayTimer, progressTimer,
           timers, touchStartX, now, advances,
           touching, hovering, manualAt, provider, exitPending, last >>

\* ---------------------------------------------------------------- helpers
Min(a, b) == IF a <= b THEN a ELSE b

Abs(a) == IF a >= 0 THEN a ELSE -a

\* JavaScript's remainder: the sign of the result is the sign of the dividend.
JsRem(a, b) == IF a >= 0 THEN a % b ELSE -((-a) % b)

Slides(n) == 0 .. (n - 1)

\* The markers after classList.remove('active') on every element and
\* classList.add('active') on element i.
OnlyActive(n, i) == [j \in Slides(n) |-> j = i]

ActiveSet(f) == {j \in DOMAIN f : f[j]}

\* The state as one record, so that the functions of the closure compose.
St == [dom |-> dom, total |-> total, current |-> current,
       slideActive |-> slideActive, dotActive |-> dotActive,
       trackOffset |-> trackOffset, progressWidth |-> progressWidth,
       progressStart |-> progressStart, paused |-> paused,
       autoplayTimer |-> autoplayTimer, progressTimer |-> progressTimer,
       timers |-> timers, touchStartX |-> touchStartX,
       now |-> now, advances |-> advances,
       touching |-> touching, hovering |-> hovering,
       manualAt |-> manualAt,
       provider |-> provider, exitPending |-> exitPending, last |-> last]

Commit(s) ==
    /\ dom' = s.dom
    /\ total' = s.total
    /\ current' = s.current
    /\ slideActive' = s.slideActive
    /\ dotActive' = s.dotActive
    /\ trackOffset' = s.trackOffset
    /\ progressWidth' = s.progressWidth
    /\ progressStart' = s.progressStart
    /\ paused' = s.paused
    /\ autoplayTimer' = s.autoplayTimer
    /\ progressTimer' = s.progressTimer
    /\ timers' = s.timers
    /\ touchStartX' = s.touchStartX
    /\ now' = s.now
    /\ advances' = s.advances
    /\ touching' = s.touching
    /\ hovering' = s.hovering
    /\ manualAt' = s.manualAt
    /\ provider' = s.provider
    /\ exitPending' = s.exitPending
    /\ last' = s.last

\* The events of the manual inputs that navigate: the prev and next buttons,
\* the dots, the end of a touch, the Left and Right arrow keys.
ManualEvents ==
    {"prevClick", "nextClick", "dotClick", "touchEnd", "ArrowLeft",
     "ArrowRight"}

\* The record of a step that starts: event evt.
\*   arg          the index of a dot click, a goTo call or an exit completion,
\*                the screenX of a touch end
\*   nav          goTo was called
\*   exitReq      slides for which an exit timeline was requested
\*   entranceReq  slides for which an entrance timeline was requested
\*   threw        the handler ended with an uncaught exception
Begin(s, evt) ==
    [s EXCEPT !.last = [evt |-> evt, arg |-> 0, nav |-> FALSE, exitReq |-> {}, entranceReq |-> {},
                        threw |-> FALSE],
              !.manualAt = IF evt \in ManualEvents THEN {s.now} ELSE @]

BeginWith(s, evt, arg) == [Begin(s, evt) EXCEPT !.last.arg = arg]

Throw(s) == [s EXCEPT !.last.threw = TRUE]

\* ----------------------------------------------------- browser: intervals
Max(S) == CHOOSE m \in S : \A x \in S : x <= m

\* The handle the next setInterval returns: handles grow, so it is larger than
\* the handle of every live timer and than every handle the slider holds.
NextId(s) ==
    1 + Max({t.id : t \in s.timers} \cup {s.autoplayTimer, s.progressTimer})

\* setInterval(callback, period) called at time s.now: a new live timer whose
\* first firing is not before s.now + period.
SetInterval(s, kind, period) ==
    [s EXCEPT !.timers = @ \cup {[id |-> NextId(s), kind |-> kind,
                                  period |-> period, due |-> s.now + period]}]

\* clearInterval(handle): the timer of that handle, if any, is no longer live.
ClearInterval(s, handle) ==
    [s EXCEPT !.timers = {t \in @ : t.id # handle}]

\* Handles are opaque: the slider only stores them and hands them back to
\* clearInterval.  Between two handlers the live timers are therefore numbered
\* 1, 2, ... in the order of their creation, and a handle of no live timer is
\* NullTimer, which clearInterval ignores as it ignores the handle of a
\* cleared timer.
Rank(T, id) == Cardinality({u \in T : u.id <= id})

Renumber(s) ==
    LET T == s.timers
        New(h) == IF \E u \in T : u.id = h THEN Rank(T, h) ELSE NullTimer
    IN  [s EXCEPT !.timers = {[u EXCEPT !.id = Rank(T, u.id)] : u \in T},
                  !.autoplayTimer = New(@),
                  !.progressTimer = New(@)]

\* The earliest time of the next firing of timer t after its callback ran at
\* time t0 >= t.due.  A browser counts the period from the run of the callback
\* or keeps the grid of the first firing; the next firing is in both cases not
\* before the next point of the grid, and a firing may be late by any amount.
NextDue(t, t0) == t0 + t.period - ((t0 - t.due) % t.period)

\* ------------------------------------------------------ timeline provider
\* window.createSlideExitTimeline(slideElement): no timeline for no element,
\* else a timeline whose completion runs later.  slide is the index of the
\* element in the slides of n slides.
CreateSlideExitTimeline(slide, n) ==
    IF slide \notin Slides(n) THEN {} ELSE {slide}

\* window.createSlideEntranceTimeline(slideElement).
CreateSlideEntranceTimeline(slide, n) ==
    IF slide \notin Slides(n) THEN {} ELSE {slide}

\* --------------------------------------------------------------- carousel
\* index % total alone.
WrapNoFix(index, n) == JsRem(index, n)

\* ((index % total) + total) % total
Wrap(index, n) == JsRem(JsRem(index, n) + n, n)

\* pct without Math.min.
ProgressPctNoClamp(elapsed) == elapsed * 100

\* pct of the progress tick, times INTERVAL.
ProgressPct(elapsed) == Min(elapsed * 100, 100 * INTERVAL)

\* resetProgress that keeps the old epoch.
ResetProgressNoEpoch(s) ==
    LET s1 == IF s.dom.progressBar THEN [s EXCEPT !.progressWidth = 0] ELSE s
        s3 == ClearInterval(s1, s1.progressTimer)
        s4 == SetInterval(s3, "progress", TICK)
    IN  [s4 EXCEPT !.progressTimer = NextId(s3)]

ResetProgress(s) ==
    LET s1 == IF s.dom.progressBar THEN [s EXCEPT !.progressWidth = 0] ELSE s
        s2 == [s1 EXCEPT !.progressStart = s.now]
        s3 == ClearInterval(s2, s2.progressTimer)
        s4 == SetInterval(s3, "progress", TICK)
    IN  [s4 EXCEPT !.progressTimer = NextId(s3)]

\* The part of goTo before its statements on the DOM: the new index and the
\* exit timeline of the outgoing slide.
GoToExit(s, index) ==
    LET prevIndex == s.current
        cur == Wrap(index, s.total)
        s1 == [s EXCEPT !.current = cur, !.last.nav = TRUE]
        exitTl == CreateSlideExitTimeline(prevIndex, s.total)
    IN  IF prevIndex # cur /\ s.provider
        THEN [s1 EXCEPT !.last.exitReq = @ \cup {prevIndex},
                        !.exitPending = @ \cup exitTl]
        ELSE s1

\* goTo that leaves the removal of the outgoing slide's marker to the
\* completion of the exit timeline.
GoToMarkersNoClear(s) ==
    LET cur == s.current
        s1 == [s EXCEPT !.trackOffset = -(cur * TRACK_STEP)]
        s2 == [s1 EXCEPT !.slideActive[cur] = TRUE]
        s3 == [s2 EXCEPT !.dotActive = OnlyActive(s.total, cur)]
    IN  IF ~s.dom.track THEN Throw(s)
        ELSE IF ~s.dom.dots THEN Throw(s2)
        ELSE s3

\* track.style.transform and the active markers; a missing track and a
\* missing dot are a TypeError that ends the handler.
GoToMarkers(s) ==
    LET cur == s.current
        s1 == [s EXCEPT !.trackOffset = -(cur * TRACK_STEP)]
        s2 == [s1 EXCEPT !.slideActive = OnlyActive(s.total, cur)]
        s3 == [s2 EXCEPT !.dotActive = OnlyActive(s.total, cur)]
    IN  IF ~s.dom.track THEN Throw(s)
        ELSE IF ~s.dom.dots THEN Throw(s2)
        ELSE s3

\* The entrance timeline requested without the typeof test.
GoToEntranceUnchecked(s) ==
    [s EXCEPT !.last.entranceReq =
                  @ \cup CreateSlideEntranceTimeline(s.current, s.total)]

\* The entrance timeline of the incoming slide.
GoToEntrance(s) ==
    IF s.provider
    THEN [s EXCEPT !.last.entranceReq =
                       @ \cup CreateSlideEntranceTimeline(s.current, s.total)]
    ELSE s

\* The rest of goTo, after the statements on the DOM left state s1.
GoToRest(s1) ==
    IF s1.last.threw THEN s1 ELSE ResetProgress(GoToEntrance(s1))

\* s1 is a bound variable, so that the state after the statements on the DOM
\* is evaluated once.
GoTo(s, index) ==
    CHOOSE out \in {GoToRest(s1) : s1 \in {GoToMarkers(GoToExit(s, index))}} :
        TRUE

NextSlide(s) == GoTo(s, s.current + 1)

\* prev() that stops at the first slide instead of wrapping.
PrevSlideClamped(s) == GoTo(s, IF s.current = 0 THEN 0 ELSE s.current - 1)

PrevSlide(s) == GoTo(s, s.current - 1)

\* next() called k times in a row.
RECURSIVE NextCalls(_, _)
NextCalls(s, k) == IF k = 0 THEN s ELSE NextCalls(NextSlide(s), k - 1)

StopAutoplay(s) ==
    ClearInterval(ClearInterval(s, s.autoplayTimer), s.progressTimer)

\* startAutoplay without stopAutoplay.
StartAutoplayNoStop(s) ==
    LET s2 == [SetInterval(s, "autoplay", INTERVAL)
                   EXCEPT !.autoplayTimer = NextId(s)]
    IN  ResetProgress(s2)

StartAutoplay(s) ==
    LET s1 == StopAutoplay(s)
        s2 == [SetInterval(s1, "autoplay", INTERVAL)
                   EXCEPT !.autoplayTimer = NextId(s1)]
    IN  ResetProgress(s2)

\* f(); startAutoplay(); where s is the state after f(): an exception in f
\* ends the handler.
\* f(); paused = false; startAutoplay(); as the touchend listener does.
ThenUnpauseAndStart(s) ==
    IF s.last.threw THEN s ELSE StartAutoplay([s EXCEPT !.paused = FALSE])

\* f(); without startAutoplay().
ThenNoRestart(s) == s

ThenStartAutoplay(s) == IF s.last.threw THEN s ELSE StartAutoplay(s)

\* ------------------------------------------------------------ callbacks
\* The callback of the autoplay interval with the test of paused inverted.
AutoplayCallbackInverted(s) == IF s.paused THEN NextSlide(s) ELSE s

\* The callback of the autoplay interval without the test of paused.
AutoplayCallbackNoPause(s) == NextSlide(s)

\* The callback of the autoplay interval: if (!paused) next();
AutoplayCallback(s) == IF ~s.paused THEN NextSlide(s) ELSE s

\* The callback of the progress interval.
ProgressCallback(s) ==
    LET elapsed == s.now - s.progressStart
        pct == ProgressPct(elapsed)
    IN  IF s.paused THEN s
        ELSE IF s.dom.progressBar THEN [s EXCEPT !.progressWidth = pct]
        ELSE s

\* The completion of the exit timeline of slide i:
\* slides[prevIndex].classList.remove('active')
ExitCallback(s, i) == [s EXCEPT !.slideActive[i] = FALSE]

\* Timer t has fired and its callback has left state s: the timer, if the
\* callback has not cleared it, fires next at time due.
Reschedule(s, t, due) ==
    [s EXCEPT !.timers = {IF u.id = t.id THEN [u EXCEPT !.due = due] ELSE u
                          : u \in @}]

\* ---------------------------------------------------------- initial state
\* The markup of the page: every element the slider looks up exists.
FullDom == [slider |-> TRUE, track |-> TRUE, dots |-> TRUE, prevBtn |-> TRUE,
            nextBtn |-> TRUE, progressBar |-> TRUE]

\* Markup in which one of the optional elements is missing.
Optional == {"track", "dots", "prevBtn", "nextBtn", "progressBar"}

WithoutOne == {[FullDom EXCEPT ![e] = FALSE] : e \in Optional}

\* Markup without the slider, and so without what is looked up inside it; the
\* elements looked up in the document exist.
NoSliderDom == [slider |-> FALSE, track |-> FALSE, dots |-> FALSE,
                prevBtn |-> TRUE, nextBtn |-> TRUE, progressBar |-> TRUE]

\* The active markers of the markup: the first slide and the first dot.
MarkupActive(n) == OnlyActive(n, 0)

\* The state in which initHeroSlider starts, on markup d with n slides and
\* with the timeline factories defined or not.
Fresh(d, n, p) ==
    [dom |-> d, total |-> n, current |-> 0,
     slideActive |-> MarkupActive(n), dotActive |-> MarkupActive(n),
     trackOffset |-> 0, progressWidth |-> 0, progressStart |-> 0,
     paused |-> FALSE, autoplayTimer |-> NullTimer,
     progressTimer |-> NullTimer, timers |-> {},
     touchStartX |-> 0, now |-> StartTime, advances |-> 0,
     touching |-> FALSE, hovering |-> FALSE, manualAt |-> {},
     provider |-> p, exitPending |-> {},
     last |-> [evt |-> "init", arg |-> 0, nav |-> FALSE, exitReq |-> {}, entranceReq |-> {},
               threw |-> FALSE]]

\* initHeroSlider() without the early return.
InitHeroSliderNoGuard(d, n, p) == StartAutoplay(Fresh(d, n, p))

\* initHeroSlider(): nothing without the slider, else startAutoplay().
InitHeroSlider(d, n, p) ==
    IF ~d.slider THEN Fresh(d, n, p) ELSE StartAutoplay(Fresh(d, n, p))

IsState(s) ==
    /\ dom = s.dom
    /\ total = s.total
    /\ current = s.current
    /\ slideActive = s.slideActive
    /\ dotActive = s.dotActive
    /\ trackOffset = s.trackOffset
    /\ progressWidth = s.progressWidth
    /\ progressStart = s.progressStart
    /\ paused = s.paused
    /\ autoplayTimer = s.autoplayTimer
    /\ progressTimer = s.progressTimer
    /\ timers = s.timers
    /\ touchStartX = s.touchStartX
    /\ now = s.now
    /\ advances = s.advances
    /\ touching = s.touching
    /\ hovering = s.hovering
    /\ manualAt = s.manualAt
    /\ provider = s.provider
    /\ exitPending = s.exitPending
    /\ last = s.last

Init ==
    \E n \in 1 .. MaxSlides, p \in BOOLEAN :
        IsState(Renumber(InitHeroSlider(FullDom, n, p)))

\* ---------------------------------------------------------------- actions
\* A handler that leaves state s has run (r is a bound variable, so that the
\* state is evaluated once).
Step(s) == \E r \in {Renumber(s)} : Commit(r)

PrevClick ==
    /\ dom.slider /\ dom.prevBtn
    /\ Step(ThenStartAutoplay(PrevSlide(Begin(St, "prevClick"))))

NextClick ==
    /\ dom.slider /\ dom.nextBtn
    /\ Step(ThenStartAutoplay(NextSlide(Begin(St, "nextClick"))))

\* parseInt(dot.dataset.dot) of dot d: the dot's own position.
DotIndex(d) == d

DotClick(d) ==
    /\ dom.slider /\ dom.dots
    /\ Step(ThenStartAutoplay(GoTo(BeginWith(St, "dotClick", d), DotIndex(d))))

MouseEnter ==
    /\ dom.slider
    /\ Step([Begin(St, "mouseEnter") EXCEPT !.paused = TRUE,
                                               !.hovering = TRUE])

\* A mouseleave listener that starts a new progress epoch.
MouseLeaveNewEpoch ==
    /\ dom.slider
    /\ Step([Begin(St, "mouseLeave")
                EXCEPT !.paused = FALSE,
                       !.progressStart = now,
                       !.hovering = FALSE])

\* A mouseleave listener that restarts autoplay.
MouseLeaveRestart ==
    /\ dom.slider
    /\ Step(StartAutoplay([Begin(St, "mouseLeave")
                              EXCEPT !.paused = FALSE,
                                     !.hovering = FALSE]))

\* progressStart = Date.now() - (Date.now() - progressStart)
MouseLeave ==
    /\ dom.slider
    /\ Step([Begin(St, "mouseLeave")
                EXCEPT !.paused = FALSE,
                       !.progressStart = now - (now - progressStart),
                       !.hovering = FALSE])

TouchStart(x) ==
    /\ dom.slider /\ ~touching
    /\ Step([Begin(St, "touchStart") EXCEPT !.touchStartX = x,
                                               !.paused = TRUE,
                                               !.touching = TRUE])

\* The swipe distance compared without Math.abs.
TouchEndHandlerNoAbs(s, x) ==
    LET touchEndX == x
        diff == s.touchStartX - touchEndX
        s2 == IF diff > SWIPE_THRESHOLD THEN NextSlide(s) ELSE s
    IN  IF s2.last.threw THEN s2
        ELSE StartAutoplay([s2 EXCEPT !.paused = FALSE])

\* The threshold compared with >= .
TouchEndHandlerAtThreshold(s, x) ==
    LET touchEndX == x
        diff == s.touchStartX - touchEndX
        s2 == IF Abs(diff) >= SWIPE_THRESHOLD
              THEN IF diff > 0 THEN NextSlide(s) ELSE PrevSlide(s)
              ELSE s
    IN  IF s2.last.threw THEN s2
        ELSE StartAutoplay([s2 EXCEPT !.paused = FALSE])

TouchEndHandler(s, x) ==
    LET touchEndX == x
        diff == s.touchStartX - touchEndX
        s2 == IF Abs(diff) > SWIPE_THRESHOLD
              THEN IF diff > 0 THEN NextSlide(s) ELSE PrevSlide(s)
              ELSE s
    IN  IF s2.last.threw THEN s2
        ELSE StartAutoplay([s2 EXCEPT !.paused = FALSE])

TouchEnd(x) ==
    /\ dom.slider /\ touching
    /\ Step(TouchEndHandler([BeginWith(St, "touchEnd", x)
                                EXCEPT !.touching = FALSE], x))

KeyDownHandler(s, key) ==
    LET s1 == IF key = "ArrowLeft" THEN ThenStartAutoplay(PrevSlide(s)) ELSE s
    IN  IF s1.last.threw THEN s1
        ELSE IF key = "ArrowRight" THEN ThenStartAutoplay(NextSlide(s1))
        ELSE s1

KeyDown(key) ==
    /\ dom.slider
    /\ Step(KeyDownHandler(Begin(St, key), key))

\* The autoplay interval fires: not before it is due.
AutoplayFire ==
    \E t \in timers :
        /\ t.kind = "autoplay" /\ now >= t.due
        /\ Step(Reschedule(AutoplayCallback(Begin(St, "autoplayFire")),
                           t, NextDue(t, now)))

\* The progress interval fires: not before it is due.
ProgressFire ==
    \E t \in timers :
        /\ t.kind = "progress" /\ now >= t.due
        /\ Step(Reschedule(ProgressCallback(Begin(St, "progressFire")),
                           t, NextDue(t, now)))

\* The exit timeline of slide i completes.
ExitComplete(i) ==
    /\ i \in exitPending
    /\ Step([ExitCallback(BeginWith(St, "exitComplete", i), i)
                EXCEPT !.exitPending = @ \ {i}])

\* parallax-engine.js runs after the slider's initialisation and defines the
\* two factories.
InstallProvider ==
    /\ ~provider
    /\ Step([Begin(St, "installProvider") EXCEPT !.provider = TRUE])

\* Time passes.
Advance(d) ==
    /\ advances < MaxAdvances
    /\ Step([Begin(St, "advance") EXCEPT !.now = @ + d,
                                            !.advances = @ + 1])

Next ==
    \/ PrevClick
    \/ NextClick
    \/ \E d \in Slides(total) : DotClick(d)
    \/ MouseEnter
    \/ MouseLeave
    \/ \E x \in StartXValues : TouchStart(x)
    \/ \E x \in EndXValues : TouchEnd(x)
    \/ \E key \in Keys : KeyDown(key)
    \/ AutoplayFire
    \/ ProgressFire
    \/ \E i \in Slides(total) : ExitComplete(i)
    \/ InstallProvider
    \/ \E d \in TimeSteps : Advance(d)

Spec == Init /\ [][Next]_vars

\* goTo(k) called with any k.
GoToCall(k) ==
    /\ dom.slider
    /\ Step(GoTo(BeginWith(St, "goTo", k), k))

\* The navigation calls alone: goTo with any argument, the clicks, the
\* autoplay timer, and the timeline provider.
NextGoTo ==
    \/ \E k \in (-MaxK) .. MaxK : GoToCall(k)
    \/ PrevClick
    \/ NextClick
    \/ \E d \in Slides(total) : DotClick(d)
    \/ AutoplayFire
    \/ \E i \in Slides(total) : ExitComplete(i)
    \/ InstallProvider
    \/ \E d \in TimeSteps : Advance(d)

SpecGoTo == Init /\ [][NextGoTo]_vars

\* The manual inputs alone, on carousels of up to MaxManualSlides slides: no
\* time passes, so no timer fires.
InitManual ==
    \E n \in 1 .. MaxManualSlides, p \in BOOLEAN :
        IsState(Renumber(InitHeroSlider(FullDom, n, p)))

NextManual ==
    \/ PrevClick
    \/ NextClick
    \/ \E d \in Slides(total) : DotClick(d)
    \/ \E x \in StartXValues : TouchStart(x)
    \/ \E x \in EndXValues : TouchEnd(x)
    \/ \E key \in Keys : KeyDown(key)
    \/ \E i \in Slides(total) : ExitComplete(i)
    \/ InstallProvider

SpecManual == InitManual /\ [][NextManual]_vars

\* The slider on incomplete markup.
InitDom ==
    \E d \in WithoutOne \cup {NoSliderDom}, n \in 1 .. MaxSlides,
       p \in BOOLEAN :
        IsState(Renumber(InitHeroSlider(d, n, p)))

\* Every listener and the autoplay timer; the progress ticks and the exit
\* completions, which neither navigate nor touch a timer, are left out.
NextDom ==
    \/ PrevClick
    \/ NextClick
    \/ \E d \in Slides(total) : DotClick(d)
    \/ MouseEnter
    \/ MouseLeave
    \/ \E x \in StartXValues : TouchStart(x)
    \/ \E x \in EndXValues : TouchEnd(x)
    \/ \E key \in Keys : KeyDown(key)
    \/ AutoplayFire
    \/ InstallProvider
    \/ \E d \in TimeSteps : Advance(d)

SpecDom == InitDom /\ [][NextDom]_vars

\* A script of the page removes the two factories from window.
RemoveProvider ==
    /\ provider
    /\ Step([Begin(St, "removeProvider") EXCEPT !.provider = FALSE])

\* The factories come and go after an initialisation that found none.
InitLate ==
    \E n \in 1 .. MaxSlides :
        IsState(Renumber(InitHeroSlider(FullDom, n, FALSE)))

NextProvider ==
    \/ PrevClick
    \/ NextClick
    \/ \E d \in Slides(total) : DotClick(d)
    \/ \E key \in Keys : KeyDown(key)
    \/ AutoplayFire
    \/ \E i \in Slides(total) : ExitComplete(i)
    \/ InstallProvider
    \/ RemoveProvider
    \/ \E d \in TimeSteps : Advance(d)

SpecProvider == InitLate /\ [][NextProvider]_vars

\* Time passes, without end.  The slider reads the clock only to take
\* differences (Date.now() - progressStart) and the timers only compare their
\* due time with it, so d ms passing is told in the frame in which now stays:
\* every recorded time moves d into the past.  An epoch more than 2 * INTERVAL
\* old is kept at that age: the progress tick treats every age of INTERVAL or
\* more alike.  A due timer fires before more time passes.
Older(t, d, s) == IF t - d < s.now - 2 * INTERVAL
                  THEN s.now - 2 * INTERVAL ELSE t - d

Pass(s, d) ==
    [s EXCEPT !.progressStart = Older(@, d, s),
              !.manualAt = {Older(t, d, s) : t \in @},
              !.timers = {[u EXCEPT !.due = @ - d] : u \in @}]

Tick(d) ==
    /\ \A u \in timers : u.due > now
    /\ Step(Pass(Begin(St, "advance"), d))

\* The slider with a clock that never stops: the next button stands for the
\* manual inputs.
NextLive ==
    \/ NextClick
    \/ MouseEnter
    \/ MouseLeave
    \/ AutoplayFire
    \/ ProgressFire
    \/ \E d \in LiveSteps : Tick(d)

\* The event loop runs the callback of a due timer, and time passes.
Fairness ==
    /\ WF_vars(AutoplayFire)
    /\ WF_vars(ProgressFire)
    /\ WF_vars(\E d \in LiveSteps : Tick(d))

SpecLive == Init /\ [][NextLive]_vars /\ Fairness

\* The slider with a clock that never stops and timers that fire late: time
\* passes in the steps of LateSteps, which do not divide INTERVAL, so the
\* autoplay timer fires up to 1000 ms after it is due.
NextLate ==
    \/ NextClick
    \/ MouseEnter
    \/ MouseLeave
    \/ AutoplayFire
    \/ ProgressFire
    \/ \E d \in LateSteps : Tick(d)

SpecLate == Init /\ [][NextLate]_vars

\* ================================================================ claims

\* C1: in every reachable state exactly one slide and exactly one dot carry
\* the active marker, and both are at index current.
C1_OneActiveAtCurrent ==
    /\ ActiveSet(slideActive) = {current}
    /\ ActiveSet(dotActive) = {current}

\* C2: goTo(k), for every integer k, sets current to k mod total, which is
\* in [0, total); it never throws and never leaves an index out of range.
C2_GoToWraps ==
    /\ [](current \in Slides(total) /\ ~last.threw)
    /\ [][last'.evt = "goTo" => current' = last'.arg % total]_vars

C2_Witness ==
    /\ last.evt = "goTo" /\ last.arg = -3
    /\ total = 2 /\ current = 1

\* C3: in every reachable state exactly one autoplay timer and exactly one
\* progress timer are live, and they are the timers of the two handles.
C3_OneTimerEach ==
    /\ Cardinality(timers) = 2
    /\ \E t \in timers : t.kind = "autoplay" /\ t.id = autoplayTimer
    /\ \E t \in timers : t.kind = "progress" /\ t.id = progressTimer

\* Two next clicks with no time between them: 0 -> 1 -> 0 with two slides.
C3_Witness ==
    /\ last.evt = "nextClick" /\ now = StartTime
    /\ total = 2 /\ current = 0

\* C4: right after a handler that called goTo the progress bar is at 0 and
\* the progress epoch is the current time.
C4_ResetAfterNavigation ==
    last.nav => progressWidth = 0 /\ progressStart = now

\* With one slide every target is the current slide; paused is true.
C4_Witness ==
    /\ last.nav /\ last.evt = "nextClick" /\ total = 1
    /\ paused /\ now > StartTime

\* C5: the width the progress tick writes is within [0%, 100%], and a tick
\* that runs while paused is false never writes a smaller width than the
\* width it finds.
C5_ProgressInRangeAndMonotone ==
    /\ [](0 <= progressWidth /\ progressWidth <= 100 * INTERVAL)
    /\ [][(last'.evt = "progressFire" /\ ~paused)
              => progressWidth' >= progressWidth]_vars

\* A tick that runs more than INTERVAL after the epoch.
C5_Witness ==
    /\ last.evt = "progressFire" /\ ~paused
    /\ now - progressStart > INTERVAL
    /\ progressWidth = 100 * INTERVAL

\* C6: while paused is true a firing of the autoplay timer leaves current and
\* the active markers unchanged, a firing of the progress timer leaves the
\* width unchanged, and neither firing cancels a timer.
C6_PausedFiringsAreNoOps ==
    [][(paused /\ last'.evt \in {"autoplayFire", "progressFire"})
          => /\ current' = current
             /\ slideActive' = slideActive
             /\ dotActive' = dotActive
             /\ progressWidth' = progressWidth
             /\ autoplayTimer' = autoplayTimer
             /\ progressTimer' = progressTimer
             /\ {t.id : t \in timers'} = {t.id : t \in timers}]_vars

\* The autoplay timer has fired after INTERVAL, paused.
C6_Witness ==
    /\ last.evt = "autoplayFire" /\ paused
    /\ now >= StartTime + INTERVAL

\* C7: with no timeline provider a handler that calls goTo moves both active
\* markers to the new current slide in the same step, throws nothing, resets
\* the progress timer and leaves no completion to wait for.
C7_NoProviderSynchronous ==
    [][(~provider /\ last'.nav)
          => /\ current' \in Slides(total)
             /\ ActiveSet(slideActive') = {current'}
             /\ ActiveSet(dotActive') = {current'}
             /\ ~last'.threw
             /\ progressWidth' = 0 /\ progressStart' = now'
             /\ \E t \in timers' : /\ t.kind = "progress"
                                   /\ t.id = progressTimer'
                                   /\ t.due = now' + TICK
             /\ exitPending' = {}
             /\ last'.exitReq = {} /\ last'.entranceReq = {}]_vars

C7_Witness ==
    /\ ~provider /\ last.nav /\ last.evt = "dotClick"
    /\ last.arg = 1 /\ current = 1

\* C8: a slide whose exit timeline has not completed still carries the active
\* marker.
C8_MarkerKeptUntilCompletion ==
    \A i \in exitPending : slideActive[i]

\* C9: a handler that calls goTo with a target that normalises to current
\* resets the progress timer, leaves current and the active markers unchanged
\* and requests neither an exit nor an entrance timeline.
C9_SameIndexNoTransition ==
    [][(last'.nav /\ current' = current)
          => /\ progressWidth' = 0 /\ progressStart' = now'
             /\ slideActive' = slideActive
             /\ dotActive' = dotActive
             /\ last'.exitReq = {} /\ last'.entranceReq = {}]_vars

\* C10: after every goTo the track's offset is -current * (100 / total)
\* percent.
C10_TrackOffset ==
    last.nav => trackOffset * total = -(current * 100)

\* C11: a touch that ends more than SWIPE_THRESHOLD away from where it
\* started navigates once: to the next slide when the distance start - end
\* is positive, to the previous slide when it is negative, so current moves
\* by exactly one step modulo total.
C11_SwipeNavigatesOnce ==
    [][(last'.evt = "touchEnd"
            /\ Abs(touchStartX - last'.arg) > SWIPE_THRESHOLD)
        => /\ last'.nav
           /\ ~last'.threw
           /\ current' = IF touchStartX - last'.arg > 0
                          THEN (current + 1) % total
                          ELSE (current - 1) % total]_vars

C11_Witness ==
    /\ last.evt = "touchEnd" /\ last.nav
    /\ touchStartX - last.arg < 0 - SWIPE_THRESHOLD
    /\ total = 3 /\ current = 2

\* C12: a touch that ends at most SWIPE_THRESHOLD away from where it started
\* does not navigate: current, the markers and the track stay as they are and
\* no timeline is requested.  The touch end still clears paused and restarts
\* autoplay: the two timers are new ones, due a full period from now, and the
\* progress bar and its epoch are reset.  A touch start always sets paused.
C12_ShortSwipeOnlyRestarts ==
    /\ [][(last'.evt = "touchEnd"
              /\ Abs(touchStartX - last'.arg) <= SWIPE_THRESHOLD)
          => /\ ~last'.nav /\ ~last'.threw
             /\ last'.exitReq = {} /\ last'.entranceReq = {}
             /\ UNCHANGED << current, slideActive, dotActive, trackOffset,
                             exitPending >>
             /\ ~paused'
             /\ Cardinality(timers') = 2
             /\ \A u \in timers' : u.due = now' + u.period
             /\ \E u \in timers' :
                    u.kind = "autoplay" /\ u.id = autoplayTimer'
             /\ \E u \in timers' :
                    u.kind = "progress" /\ u.id = progressTimer'
             /\ progressWidth' = 0 /\ progressStart' = now']_vars
    /\ [][last'.evt = "touchStart" => paused']_vars

\* The touch ends exactly SWIPE_THRESHOLD from its start, after the timers of
\* the initialisation have run for a while.
C12_Witness ==
    /\ last.evt = "touchEnd"
    /\ touchStartX - last.arg = SWIPE_THRESHOLD
    /\ now > StartTime /\ ~paused
    /\ progressStart = now

\* C13: next() and prev() move around a circle and undo each other: from
\* index i, next() leads to (i + 1) mod total and prev() to (i - 1) mod total,
\* next() then prev() and prev() then next() lead back to i, and total calls
\* of next() lead back to i.  The next and prev buttons do the same.
C13_NextPrevCircular ==
    /\ [](LET s == St
          IN  /\ NextSlide(s).current = (current + 1) % total
              /\ PrevSlide(s).current = (current - 1) % total
              /\ PrevSlide(NextSlide(s)).current = current
              /\ NextSlide(PrevSlide(s)).current = current
              /\ NextCalls(s, total).current = current
              /\ \A k \in 1 .. (total - 1) :
                     NextCalls(s, k).current # current)
    /\ [][last'.evt = "nextClick" => current' = (current + 1) % total]_vars
    /\ [][last'.evt = "prevClick" => current' = (current - 1) % total]_vars

\* A prev click at the first of four slides led to the last one.
C13_Witness ==
    /\ last.evt = "prevClick" /\ last.nav
    /\ total = 4 /\ current = 3

\* C14: every manual input (prev or next button, dot, touch end, Left or
\* Right arrow key) restarts autoplay after its navigation: it leaves an
\* autoplay timer due INTERVAL after the input.  So whatever the old autoplay
\* timer was about to do, the autoplay timer advances the slide no earlier
\* than INTERVAL after the latest manual input.
C14_NoAutoAdvanceSoonAfterInput ==
    /\ []((last.evt = "autoplayFire" /\ last.nav)
            => \A t \in manualAt : now >= t + INTERVAL)
    /\ [](\A t \in manualAt : \A u \in timers :
              u.kind = "autoplay" => u.due >= t + INTERVAL)
    /\ [][last'.evt \in ManualEvents
          => /\ manualAt' = {now'}
             /\ \A u \in timers' :
                    u.kind = "autoplay" => u.due = now' + INTERVAL
             /\ \E u \in timers' :
                    u.kind = "autoplay" /\ u.id = autoplayTimer'
             /\ (last'.evt # "touchEnd" => last'.nav)]_vars

\* The old autoplay timer would have fired by now; the one of the manual input
\* is not due yet.
C14_Witness ==
    /\ manualAt = {StartTime + 30}
    /\ now >= StartTime + INTERVAL
    /\ now < StartTime + 30 + INTERVAL
    /\ ~paused /\ total = 2

\* C15: on markup that has the slider and lacks one optional element (the
\* track, the dots, the prev or next button, the progress bar), no handler
\* throws, and every navigation leaves the active marker on the slide at
\* index current.
C15_MissingElementTolerated ==
    dom.slider
        => /\ ~last.threw
           /\ (last.nav => slideActive[current])

\* C16: without the slider the initialisation does nothing: no timer is
\* live, no handle is stored, the carousel state is never written, no
\* listener ever runs, and nothing throws.
C16_NoSliderNoOp ==
    ~dom.slider
        => /\ timers = {}
           /\ autoplayTimer = NullTimer /\ progressTimer = NullTimer
           /\ current = 0 /\ ~paused /\ progressStart = 0
           /\ progressWidth = 0 /\ trackOffset = 0
           /\ slideActive = MarkupActive(total)
           /\ dotActive = MarkupActive(total)
           /\ manualAt = {} /\ exitPending = {}
           /\ last.evt \in {"init", "advance", "installProvider"}
           /\ ~last.threw

\* Long after the page was loaded without a slider.
C16_Witness ==
    /\ ~dom.slider /\ dom.prevBtn /\ dom.nextBtn
    /\ now >= StartTime + INTERVAL
    /\ provider /\ total = 2

\* C17: goTo looks for the timeline factories each time it is called.  When
\* they are there, also if they were defined after the initialisation, a goTo
\* that changes the index requests the exit timeline of the outgoing slide
\* and the entrance timeline of the incoming one; when they are not there,
\* also if they were removed after having been used, goTo requests nothing.
C17_ProviderLookedUpPerCall ==
    [][last'.nav
        => IF provider
           THEN current' # current
                    => /\ last'.exitReq = {current}
                       /\ current \in exitPending'
                       /\ last'.entranceReq = {current'}
           ELSE /\ last'.exitReq = {} /\ last'.entranceReq = {}
                /\ exitPending' = exitPending]_vars

\* The factories were defined after the initialisation and used (an exit
\* completion is pending), then removed; the next click requested nothing.
C17_Witness ==
    /\ ~provider /\ exitPending # {}
    /\ last.evt = "nextClick" /\ last.nav
    /\ last.exitReq = {} /\ last.entranceReq = {}
    /\ total = 2

\* C18: the pointer entering the slider sets paused and the pointer leaving
\* it clears paused, and that is all they do: current, the markers, the
\* track, the progress bar and its epoch, the two timer handles and the live
\* timers with their due times stay as they are.
C18_HoverOnlyTogglesPaused ==
    [][last'.evt \in {"mouseEnter", "mouseLeave"}
        => /\ paused' = (last'.evt = "mouseEnter")
           /\ ~last'.nav /\ ~last'.threw
           /\ UNCHANGED << current, slideActive, dotActive, trackOffset,
                           progressWidth, progressStart, autoplayTimer,
                           progressTimer, timers, touchStartX, exitPending,
                           manualAt, total >>]_vars

\* The pointer left after the timers had run for a while under a pause.
C18_Witness ==
    /\ last.evt = "mouseLeave" /\ ~paused
    /\ now > StartTime /\ progressStart < now
    /\ \E u \in timers : u.kind = "autoplay" /\ u.due < now + INTERVAL

\* C19: while the pointer is over the slider (it entered and has not left),
\* no firing of the autoplay timer changes current, whatever touches, keys
\* and clicks came in between.
C19_NoAutoAdvanceWhileHovering ==
    [][(hovering /\ last'.evt = "autoplayFire") => current' = current]_vars

\* C20: an autoplay firing that finds paused false advances current by one
\* modulo total.  With the timers and the clock running (weak fairness), if
\* from some time on paused stays false and no manual input comes, autoplay
\* advances the slide again and again, and every slide is the current one
\* again and again.
C20_AutoplayProgress ==
    /\ [][(last'.evt = "autoplayFire" /\ ~paused)
          => /\ last'.nav
             /\ current' = (current + 1) % total]_vars
    /\ (<>[](~paused) /\ <>[][last'.evt \notin ManualEvents]_vars)
          => \A i \in Slides(MaxSlides) :
                 []<>(i \in Slides(total)
                        => /\ last.evt = "autoplayFire" /\ last.nav
                           /\ current = i /\ slideActive[i])

\* Autoplay led from the last slide back to the first.
C20_Witness ==
    /\ last.evt = "autoplayFire" /\ last.nav
    /\ total = 2 /\ current = 0 /\ manualAt = {}

\* C21: the pointer leaving the slider leaves the progress epoch as it is, and
\* a progress tick that runs while paused is false writes the fraction of
\* INTERVAL that has passed since that epoch, whatever the bar showed before:
\* the time spent paused counts, the bar does not resume where it stood.
C21_PausedTimeCounts ==
    /\ [][last'.evt = "mouseLeave" => progressStart' = progressStart]_vars
    /\ [][(last'.evt = "progressFire" /\ ~paused)
          => progressWidth' =
                 Min((now - progressStart) * 100, 100 * INTERVAL)]_vars

\* The pointer leaves when the epoch is almost INTERVAL old and the bar still
\* stands at 0.
C21_Witness ==
    /\ last.evt = "mouseLeave" /\ ~paused
    /\ progressWidth = 0
    /\ now - progressStart >= 4990

\* C22: an autoplay firing that calls next() finds a progress epoch that is
\* at least INTERVAL old.
C22_NoAdvanceBeforeBarIsFull ==
    [][(last'.evt = "autoplayFire" /\ last'.nav)
        => now - progressStart >= INTERVAL]_vars

\* C23: paused holds back the timers only.  A click on the prev or next
\* button or on a dot, or a Left or Right arrow key, that comes while paused
\* is true moves current and both active markers to the slide asked for,
\* leaves two new timers due a full period later, and leaves paused true.
C23_ManualInputWhilePaused ==
    [][(paused /\ last'.evt \in {"prevClick", "nextClick", "dotClick",
                                   "ArrowLeft", "ArrowRight"})
        => /\ last'.nav /\ ~last'.threw
           /\ current' = CASE last'.evt \in {"prevClick", "ArrowLeft"}
                               -> (current - 1) % total
                            [] last'.evt \in {"nextClick", "ArrowRight"}
                               -> (current + 1) % total
                            [] OTHER -> last'.arg
           /\ ActiveSet(slideActive') = {current'}
           /\ ActiveSet(dotActive') = {current'}
           /\ Cardinality(timers') = 2
           /\ \A u \in timers' : u.due = now' + u.period
           /\ \E u \in timers' :
                  u.kind = "autoplay" /\ u.id = autoplayTimer'
           /\ \E u \in timers' :
                  u.kind = "progress" /\ u.id = progressTimer'
           /\ paused']_vars

\* The Right arrow key pressed under a pause, after the timers of the
\* initialisation had run for a while.
C23_Witness ==
    /\ paused /\ last.evt = "ArrowRight" /\ last.nav
    /\ total = 2 /\ current = 1
    /\ now > StartTime /\ progressStart = now

====
